---- MODULE Spec2Model ----
(***************************************************************************)
(* Model of gdubm_summarize.py: the decoder                                *)
(* (read_variant_from_benchmark_file), the averaging function              *)
(* (average_of_samples), the two reporters (print_benchmark_summary,       *)
(* print_benchmark_averages) and the driver (main).                        *)
(*                                                                         *)
(* Sample values are IEEE-754 binary64 numbers (GVariant type 'd', Python  *)
(* float).  They are modelled bit-exactly: a double is a sign, a 53-bit    *)
(* significand kept as a sequence of bits (least significant bit first)    *)
(* and an exponent; every operation rounds to nearest, ties to even.       *)
(* Exponent overflow, subnormals, NaN and infinities are outside the       *)
(* value domain the model draws its inputs from.                           *)
(***************************************************************************)
EXTENDS Integers, Sequences, FiniteSets, TLC

VARIABLES
    pySum,      \* which float summation the interpreter's sum() performs
    samples,    \* argument of an average_of_samples call made on its own
    result,     \* its outcome: a value or the exception it raised
    apc,        \* position of that call: "call", "done" (or "off")
    argv,       \* the command line: tsv flag, unknown flag, file list
    pc,         \* position of main
    idx,        \* index in argv.files of the file the loop is at
    line,       \* next print statement of print_benchmark_summary (1..7)
    variant,    \* index of the file whose record main's `variant` names, 0: none
    mapped,     \* indices of the files whose GMappedFile is alive
    extracted,  \* the lookups variant[key] that returned a value: <<file, key>>
    stdout,     \* the lines printed so far
    error,      \* the uncaught exception, if any
    exitCode    \* exit status of the process, -1 while it runs

avars == <<samples, result, apc>>
mvars == <<argv, pc, idx, line, variant, mapped, extracted, stdout, error, exitCode>>
vars == <<pySum, samples, result, apc, argv, pc, idx, line, variant, mapped,
          extracted, stdout, error, exitCode>>

(***************************************************************************)
(* Bounds of the model.                                                    *)
(***************************************************************************)
MaxSamples == 3
MaxFiles == 2

(***************************************************************************)
(* Natural numbers of arbitrary size (a significand needs 53 bits, more    *)
(* than the checker's integers hold): sequences of limbs in base 2^13,     *)
(* least significant limb first, without high zero limbs; <<>> is zero.    *)
(* The operators bind intermediate results to bound variables so that      *)
(* each is computed once.                                                  *)
(***************************************************************************)
Base == 2^13

Max(x, y) == IF x >= y THEN x ELSE y
Min(x, y) == IF x <= y THEN x ELSE y

\* the single element of a singleton set
The(S) == CHOOSE x \in S : TRUE

Limb(a, i) == IF i >= 1 /\ i <= Len(a) THEN a[i] ELSE 0

LTrimV(a) ==
    SubSeq(a, 1, The({n \in 0..Len(a) :
                        /\ n = 0 \/ a[n] # 0
                        /\ \A i \in (n + 1)..Len(a) : a[i] = 0}))

LTrim(a) == The({LTrimV(v) : v \in {a}})

LAddV(a, b) ==
    LET n == Max(Len(a), Len(b))
        sum(i) == Limb(a, i) + Limb(b, i)
        \* the carry into limb i
        carry(i) == IF \E j \in 1..(i - 1) :
                          /\ sum(j) >= Base
                          /\ \A k \in (j + 1)..(i - 1) : sum(k) = Base - 1
                    THEN 1 ELSE 0
    IN  LTrimV([i \in 1..(n + 1) |-> (sum(i) + carry(i)) % Base])

LAdd(a, b) == The({LAddV(v, w) : v \in {a}, w \in {b}})

LSubV(a, b) ==
    LET diff(i) == Limb(a, i) - Limb(b, i)
        \* the borrow out of the limbs below i
        borrow(i) == IF \E j \in 1..(i - 1) :
                           /\ diff(j) < 0
                           /\ \A k \in (j + 1)..(i - 1) : diff(k) = 0
                     THEN 1 ELSE 0
    IN  LTrimV([i \in 1..Len(a) |-> (diff(i) - borrow(i) + Base) % Base])

\* a - b for a >= b
LSub(a, b) == The({LSubV(v, w) : v \in {a}, w \in {b}})

LLessV(a, b) ==
    IF Len(a) # Len(b) THEN Len(a) < Len(b)
    ELSE \E i \in 1..Len(a) :
            /\ a[i] < b[i]
            /\ \A j \in (i + 1)..Len(a) : a[j] = b[j]

\* a < b
LLess(a, b) == \E v \in {a}, w \in {b} : LLessV(v, w)

NatBits(x) == IF x = 0 THEN 0 ELSE CHOOSE k \in 1..30 : 2^(k - 1) <= x /\ x < 2^k

\* number of bits of a
BitLen(a) ==
    The({IF v = <<>> THEN 0 ELSE 13 * (Len(v) - 1) + NatBits(v[Len(v)]) : v \in {a}})

LShlV(a, k) ==
    LET nz == k \div 13
        p == 2^(k % 13)
    IN  IF a = <<>> THEN <<>>
        ELSE LTrimV([i \in 1..(nz + Len(a) + 1) |->
                       IF i <= nz THEN 0
                       ELSE ((Limb(a, i - nz) * p) % Base)
                            + ((Limb(a, i - nz - 1) * p) \div Base)])

\* a * 2^k
LShl(a, k) == The({LShlV(v, w) : v \in {a}, w \in {k}})

LShrV(a, k) ==
    LET nd == Min(k \div 13, Len(a))
        p == 2^(k % 13)
    IN  [q |-> LTrimV([i \in 1..(Len(a) - nd) |->
                         (Limb(a, i + nd) \div p)
                         + ((Limb(a, i + nd + 1) % p) * (Base \div p))]),
         lost |-> (Limb(a, nd + 1) % p) # 0 \/ \E i \in 1..nd : a[i] # 0]

\* floor(a / 2^k), and whether bits were lost
LShr(a, k) == The({LShrV(v, w) : v \in {a}, w \in {k}})

Odd(a) == Limb(a, 1) % 2 = 1

RECURSIVE LQuotRemFrom(_, _, _, _, _)
\* long division from limb i of a downwards, with the remainder r and the
\* quotient limbs q of the limbs above i
LQuotRemFrom(a, n, i, r, q) ==
    IF i = 0 THEN [q |-> LTrimV(q), r |-> r]
    ELSE The({LQuotRemFrom(a, n, i - 1, c % n, The({<<c \div n>> \o v : v \in {q}}))
              : c \in {r * Base + a[i]}})

\* quotient and remainder of a by the small n > 0 (n <= Base)
LQuotRem(a, n) == The({LQuotRemFrom(v, n, Len(v), 0, <<>>) : v \in {a}})

\* limb i of the number written by the hex digits ds (most significant
\* first): bits 13(i-1) .. 13i-1, which lie within five consecutive digits
HexLimb(ds, i) ==
    LET hex(t) == IF t >= 0 /\ t < Len(ds) THEN ds[Len(ds) - t] ELSE 0
        q == (13 * (i - 1)) \div 4
        r == (13 * (i - 1)) % 4
        w == hex(q) + 16 * hex(q + 1) + 256 * hex(q + 2) + 4096 * hex(q + 3)
             + 65536 * hex(q + 4)
    IN  (w \div 2^r) % Base

\* the number written by the hex digits ds (most significant first)
LFromHex(ds) == LTrimV([i \in 1..((4 * Len(ds)) \div 13 + 1) |-> HexLimb(ds, i)])

(***************************************************************************)
(* IEEE-754 binary64.  A double is [s, m, e] with value (-1)^s * m * 2^e,  *)
(* m a number of exactly Precision bits, or Zero.                          *)
(***************************************************************************)
Precision == 53

Zero == [s |-> 0, m |-> <<>>, e |-> 0]

RoundV(s, a, e, sticky) ==
    LET L == BitLen(a) IN
    IF a = <<>> THEN Zero
    ELSE IF L <= Precision
    THEN [s |-> s, m |-> LShl(a, Precision - L), e |-> e - (Precision - L)]
    ELSE The({
           The({IF BitLen(r) > Precision
                THEN [s |-> s, m |-> LShr(r, 1).q, e |-> e + (L - Precision) + 1]
                ELSE [s |-> s, m |-> r, e |-> e + (L - Precision)]
                : r \in {The({IF Odd(sh.q) /\ (sticky \/ sh.lost \/ Odd(kept))
                              THEN LAdd(kept, <<1>>) ELSE kept
                              : kept \in {LShr(sh.q, 1).q}})}})
           : sh \in {LShr(a, L - Precision - 1)}})

\* round-to-nearest-even of (-1)^s * (a + f) * 2^e, where sticky says whether
\* the already discarded fraction f (0 <= f < 1) is non-zero
Round(s, a, e, sticky) == The({RoundV(s, v, e, sticky) : v \in {a}})

FAddV(x, y) ==
    IF x.m = <<>> THEN y
    ELSE IF y.m = <<>> THEN x
    ELSE The({IF x.s = y.s THEN Round(x.s, LAddV(a, b), Min(x.e, y.e), FALSE)
              ELSE IF LLessV(a, b) THEN Round(y.s, LSubV(b, a), Min(x.e, y.e), FALSE)
              ELSE Round(x.s, LSubV(a, b), Min(x.e, y.e), FALSE)
              : a \in {LShlV(x.m, x.e - Min(x.e, y.e))},
                b \in {LShlV(y.m, y.e - Min(x.e, y.e))}})

\* x + y, correctly rounded
FAdd(x, y) == The({FAddV(v, w) : v \in {x}, w \in {y}})

FNeg(x) == The({IF v.m = <<>> THEN v ELSE [v EXCEPT !.s = 1 - v.s] : v \in {x}})

FSub(x, y) == FAdd(x, FNeg(y))

\* fabs(x) >= fabs(y)
FAbsGeq(x, y) ==
    IF y.m = <<>> THEN TRUE
    ELSE IF x.m = <<>> THEN FALSE
    ELSE IF x.e # y.e THEN x.e > y.e
    ELSE ~LLess(x.m, y.m)

\* x / n for the int n > 0, correctly rounded (n converts to a double exactly)
FDivInt(x, n) ==
    The({IF v.m = <<>> THEN Zero
         ELSE The({Round(v.s, qr.q, v.e - (NatBits(n) + 2), qr.r # 0)
                   : qr \in {LQuotRem(LShlV(v.m, NatBits(n) + 2), n)}})
         : v \in {x}})

\* the double written 0x1.<ds>p<ex> by float.hex(), ds thirteen hex digits
Dbl(ds, ex) == [s |-> 0, m |-> LFromHex(<<1>> \o ds), e |-> ex - (Precision - 1)]

(***************************************************************************)
(* sum() over Python floats, starting from the int 0.  CPython up to 3.11  *)
(* adds left to right; CPython 3.12 and later adds left to right with      *)
(* Neumaier's compensation.  The script does not fix the interpreter       *)
(* version, so pySum ranges over both.                                     *)
(***************************************************************************)
SumAlgorithms == {"naive", "neumaier"}

RECURSIVE NaiveSum(_)
NaiveSum(values) ==
    IF values = <<>> THEN Zero
    ELSE FAdd(NaiveSum(SubSeq(values, 1, Len(values) - 1)), values[Len(values)])

\* one round of the compensated loop: t = f + x; c += (f - t) + x, or
\* (x - t) + f when x is the larger; f = t
NeumaierStep(p, x) ==
    The({[f |-> t,
          c |-> FAdd(p.c, IF FAbsGeq(p.f, x) THEN FAdd(FSub(p.f, t), x)
                          ELSE FAdd(FSub(x, t), p.f))]
         : t \in {FAdd(p.f, x)}})

RECURSIVE NeumaierFold(_)
\* the pair (f_result, c) after the items of values
NeumaierFold(values) ==
    IF Len(values) = 1 THEN [f |-> values[1], c |-> Zero]
    ELSE The({NeumaierStep(p, values[Len(values)])
              : p \in {NeumaierFold(SubSeq(values, 1, Len(values) - 1))}})

NeumaierSum(values) ==
    IF values = <<>> THEN Zero
    ELSE The({IF p.c.m # <<>> THEN FAdd(p.f, p.c) ELSE p.f
              : p \in {NeumaierFold(values)}})

PySum(values) ==
    IF pySum = "naive" THEN NaiveSum(values) ELSE NeumaierSum(values)

(***************************************************************************)
(* average_of_samples.  A sample is the pair <<offset, value>>; the code's *)
(* sample[1] is the second component.  The outcome is a value or the       *)
(* exception raised.                                                       *)
(***************************************************************************)
Returned(v) == [ok |-> TRUE, val |-> v]
Raised(exc) == [ok |-> FALSE, exc |-> exc]

SampleValues(smpls) == [i \in 1..Len(smpls) |-> smpls[i][2]]

\* mutants of average_of_samples: an empty sequence averaged to 0.0; the sum
\* divided by one more than the number of samples
AverageOfSamplesZero(smpls) ==
    The({IF Len(values) = 0 THEN Returned(Zero)
         ELSE Returned(FDivInt(PySum(values), Len(values)))
         : values \in {SampleValues(smpls)}})

AverageOfSamplesOffByOne(smpls) ==
    The({IF Len(values) = 0 THEN Raised("ZeroDivisionError")
         ELSE Returned(FDivInt(PySum(values), Len(values) + 1))
         : values \in {SampleValues(smpls)}})

AverageOfSamples(smpls) ==
    The({IF Len(values) = 0 THEN Raised("ZeroDivisionError")
         ELSE Returned(FDivInt(PySum(values), Len(values)))
         : values \in {SampleValues(smpls)}})

(***************************************************************************)
(* The command line and the input files.  A file is unreadable, or it      *)
(* decodes to a dictionary (GVariant a{sv}): the keys it holds and their   *)
(* values.  Sizes and the timestamp are naturals written as decimal digits  *)
(* (most significant first), sample sequences are sequences of             *)
(* <<offset, value>> with value a double.                                  *)
(***************************************************************************)
SampleKeys == {"read-samples", "write-samples", "access-time-samples"}
Keys == {"version", "device-size", "timestamp-usec", "sample-size"} \cup SampleKeys

\* a < b for naturals written as decimal digits, most significant first
DecLess(a, b) ==
    IF Len(a) # Len(b) THEN Len(a) < Len(b)
    ELSE \E i \in 1..Len(a) :
            /\ a[i] < b[i]
            /\ \A j \in 1..(i - 1) : a[j] = b[j]

D_0_1 == Dbl(<<9, 9, 9, 9, 9, 9, 9, 9, 9, 9, 9, 9, 10>>, -4)      \* 0.1
D_0_3 == Dbl(<<3, 3, 3, 3, 3, 3, 3, 3, 3, 3, 3, 3, 3>>, -2)       \* 0.3
D_0_012 == Dbl(<<8, 9, 3, 7, 4, 11, 12, 6, 10, 7, 14, 15, 10>>, -7) \* 0.012
D_0_018 == Dbl(<<2, 6, 14, 9, 7, 8, 13, 4, 15, 13, 15, 3, 11>>, -6) \* 0.018
D_4e8 == Dbl(<<7, 13, 7, 8, 4, 0, 0, 0, 0, 0, 0, 0, 0>>, 28)      \* 400000000.0
D_5e8 == Dbl(<<13, 12, 13, 6, 5, 0, 0, 0, 0, 0, 0, 0, 0>>, 28)    \* 500000000.0
D_6e8 == Dbl(<<1, 14, 1, 10, 3, 0, 0, 0, 0, 0, 0, 0, 0>>, 29)     \* 600000000.0

Absent(k) == IF k = "version" THEN 0 ELSE <<>>

\* the record of the specification's scenario, benchmarked in November 2023
ValidA ==
    [readable |-> TRUE, present |-> Keys,
     dict |-> [k \in Keys |->
        CASE k = "version" -> 1
          [] k = "device-size" -> (<<2, 5, 6, 0, 6, 0, 5, 1, 4, 3, 0, 4>>)
          [] k = "timestamp-usec" -> (<<1, 7, 0, 0, 0, 0, 0, 0, 0, 0, 0, 0, 0, 0, 0, 0>>)
          [] k = "sample-size" -> (<<1, 0, 4, 8, 5, 7, 6>>)
          [] k = "read-samples" -> <<<<0, D_5e8>>, <<1000, D_6e8>>>>
          [] k = "write-samples" -> <<<<0, D_4e8>>>>
          [] k = "access-time-samples" -> <<<<0, D_0_012>>, <<500, D_0_018>>>>]]

\* a second valid record, with three different sample counts
ValidB ==
    [ValidA EXCEPT
        !.dict["read-samples"] = <<<<0, D_6e8>>>>,
        !.dict["write-samples"] = <<<<0, D_4e8>>, <<1000, D_5e8>>>>,
        !.dict["access-time-samples"] = <<<<0, D_0_1>>, <<500, D_0_1>>, <<900, D_0_1>>>>]

Without(f, k) == [f EXCEPT !.present = @ \ {k}, !.dict[k] = Absent(k)]
WithEmpty(f, k) == [f EXCEPT !.dict[k] = <<>>]
WithVersion(f, v) == [f EXCEPT !.dict["version"] = v]
\* timestamp-usec = 2^63
WithLateTimestamp(f) ==
    [f EXCEPT !.dict["timestamp-usec"] =
        (<<9, 2, 2, 3, 3, 7, 2, 0, 3, 6, 8, 5, 4, 7, 7, 5, 8, 0, 8>>)]
Unreadable == [readable |-> FALSE, present |-> {}, dict |-> [k \in Keys |-> Absent(k)]]

FileKinds ==
    {ValidA, ValidB, Unreadable, WithVersion(ValidA, 2), WithLateTimestamp(ValidA)}
    \cup {Without(ValidA, k) : k \in Keys}
    \cup {WithEmpty(ValidA, k) : k \in SampleKeys}

SeqsUpTo(S, n) == UNION {[1..k -> S] : k \in 0..n}

Files == argv.files
File(i) == argv.files[i]
Has(i, k) == k \in File(i).present
Lookup(i, k) == File(i).dict[k]

(***************************************************************************)
(* datetime.datetime.fromtimestamp(usec / 1e6, utc) raises ValueError for  *)
(* a time after the year 9999.                                             *)
(***************************************************************************)
YearTenThousandUsec == <<2, 5, 3, 4, 0, 2, 3, 0, 0, 8, 0, 0, 0, 0, 0, 0, 0, 0>>

FromTimestampOK(usec) == DecLess(usec, YearTenThousandUsec)

(***************************************************************************)
(* Evaluation of the format arguments of one print statement.  The keys    *)
(* are looked up in the order the f-string names them; the first lookup    *)
(* or average that raises ends the evaluation.  An outcome holds the       *)
(* exception or the arguments, and the keys whose lookup returned.         *)
(***************************************************************************)
Fail(exc, keys) == [ok |-> FALSE, exc |-> exc, keys |-> keys]
Done(args, keys) == [ok |-> TRUE, args |-> args, keys |-> keys]

\* average_of_samples(variant[k]) followed by what the caller does with it
AverageArg(i, k) ==
    IF ~Has(i, k) THEN Fail("KeyError", {})
    ELSE The({IF a.ok THEN Done(a.val, {k}) ELSE Fail(a.exc, {k})
              : a \in {AverageOfSamples(Lookup(i, k))}})

\* f'{variant[k]:,} bytes'
BytesArgs(i, k) ==
    IF ~Has(i, k) THEN Fail("KeyError", {}) ELSE Done([bytes |-> Lookup(i, k)], {k})

\* fromtimestamp(variant["timestamp-usec"] / 1e6, utc).strftime("%c %Z")
TimeArgs(i) ==
    IF ~Has(i, "timestamp-usec") THEN Fail("KeyError", {})
    ELSE IF ~FromTimestampOK(Lookup(i, "timestamp-usec"))
    THEN Fail("ValueError", {"timestamp-usec"})
    ELSE Done([usec |-> Lookup(i, "timestamp-usec")], {"timestamp-usec"})

\* mutant of the sample count: every rate line counts the read samples
CountKeyOfRead(k) == "read-samples"

\* which sequence the sample count printed beside the average of k is taken of
CountKey(k) == k

\* f'{average_of_samples(variant[k]) ...} ({len(variant[k])} samples)'
RateArgs(i, k) ==
    The({IF ~a.ok THEN a
         ELSE IF ~Has(i, CountKey(k)) THEN Fail("KeyError", a.keys)
         ELSE Done([avg |-> a.args, count |-> Len(Lookup(i, CountKey(k)))],
                   a.keys \cup {CountKey(k)})
         : a \in {AverageArg(i, k)}})

\* the labels of print_benchmark_summary's print statements, in program order
SummaryLabels ==
    <<"filename", "Disk or Device", "Last Benchmarked", "Sample Size",
      "Average Read Rate", "Average Write Rate", "Average Access Time">>

NumSummaryLines == Len(SummaryLabels)

\* the n-th print statement of print_benchmark_summary
SummaryArgs(i, n) ==
    CASE n = 1 -> Done([name |-> i], {})
      [] n = 2 -> BytesArgs(i, "device-size")
      [] n = 3 -> TimeArgs(i)
      [] n = 4 -> BytesArgs(i, "sample-size")
      [] n = 5 -> RateArgs(i, "read-samples")
      [] n = 6 -> RateArgs(i, "write-samples")
      [] n = 7 -> RateArgs(i, "access-time-samples")

\* the single print statement of print_benchmark_averages
AveragesArgs(i) ==
    The({IF ~r.ok THEN r
         ELSE The({IF ~w.ok THEN Fail(w.exc, r.keys \cup w.keys)
                   ELSE The({IF ~t.ok THEN Fail(t.exc, r.keys \cup w.keys \cup t.keys)
                             ELSE Done([read |-> r.args, write |-> w.args,
                                        access |-> t.args, name |-> i], SampleKeys)
                             : t \in {AverageArg(i, "access-time-samples")}})
                   : w \in {AverageArg(i, "write-samples")}})
         : r \in {AverageArg(i, "read-samples")}})

\* a printed line: the file it is about, the reporter and statement that
\* printed it, and the values it was formatted from (the text itself, units
\* and decimals included, is not modelled)
Line(i, fmt, label, args) == [file |-> i, fmt |-> fmt, label |-> label, args |-> args]

NoError == [exc |-> "none", file |-> 0, where |-> "none"]

(***************************************************************************)
(* main and the functions it calls.                                        *)
(***************************************************************************)
TypeOK ==
    /\ pySum \in SumAlgorithms
    /\ pc \in {"off", "parse_args", "for", "map_file", "check_version", "dispatch",
               "print_averages", "print_summary", "exit"}
    /\ idx \in 0..Len(Files)
    /\ line \in 1..NumSummaryLines
    /\ variant \in 0..Len(Files)
    /\ mapped \subseteq 1..Len(Files)
    /\ exitCode \in {-1, 0, 1, 2}

Init ==
    /\ pySum \in SumAlgorithms
    /\ samples = <<>> /\ result = Raised("none") /\ apc = "off"
    /\ argv \in [tsv : BOOLEAN, unknownFlag : BOOLEAN,
                 files : SeqsUpTo(FileKinds, MaxFiles)]
    /\ pc = "parse_args"
    /\ idx = 0
    /\ line = 1
    /\ variant = 0
    /\ mapped = {}
    /\ extracted = {}
    /\ stdout = <<>>
    /\ error = NoError
    /\ exitCode = -1

\* mutants of the uncaught exception: the driver reports it and goes on to
\* the next file; the process ends with status 0
UncaughtContinue(exc, where, keys) ==
    /\ error' = [exc |-> exc, file |-> idx, where |-> where]
    /\ extracted' = extracted \cup {<<idx, k>> : k \in keys}
    /\ pc' = "for"
    /\ mapped' = mapped \ {idx}
    /\ UNCHANGED <<pySum, avars, argv, idx, line, variant, stdout, exitCode>>

UncaughtExitZero(exc, where, keys) ==
    /\ error' = [exc |-> exc, file |-> idx, where |-> where]
    /\ extracted' = extracted \cup {<<idx, k>> : k \in keys}
    /\ exitCode' = 0
    /\ pc' = "exit"
    /\ mapped' = {}
    /\ UNCHANGED <<pySum, avars, argv, idx, line, variant, stdout>>

\* an exception nobody catches: traceback, exit status 1, and the process
\* (its mappings with it) is gone
Uncaught(exc, where, keys) ==
    /\ error' = [exc |-> exc, file |-> idx, where |-> where]
    /\ extracted' = extracted \cup {<<idx, k>> : k \in keys}
    /\ exitCode' = 1
    /\ pc' = "exit"
    /\ mapped' = {}
    /\ UNCHANGED <<pySum, avars, argv, idx, line, variant, stdout>>

\* argp.parse_args(): nargs='+' wants a file, an unknown flag is an error;
\* argparse prints the usage and exits with status 2
ParseArgs ==
    /\ pc = "parse_args"
    /\ IF argv.unknownFlag \/ argv.files = <<>>
       THEN /\ pc' = "exit"
            /\ exitCode' = 2
            /\ error' = [exc |-> "SystemExit", file |-> 0, where |-> "parse_args"]
       ELSE /\ pc' = "for"
            /\ UNCHANGED <<exitCode, error>>
    /\ UNCHANGED <<pySum, avars, argv, idx, line, variant, mapped, extracted, stdout>>

\* the next file the loop takes after the file at index i
NextIndex(i) == i + 1

\* for filename in args.benchmark_cache_files: ... return 0; sys.exit(main())
ForLoop ==
    /\ pc = "for"
    /\ IF idx >= Len(Files)
       THEN /\ pc' = "exit"
            /\ exitCode' = 0
            /\ mapped' = {}
            /\ UNCHANGED idx
       ELSE /\ idx' = NextIndex(idx)
            /\ pc' = "map_file"
            /\ UNCHANGED <<exitCode, mapped>>
    /\ UNCHANGED <<pySum, avars, argv, line, variant, extracted, stdout, error>>

\* read_variant_from_benchmark_file: GLib.MappedFile(filename, False) and the
\* GLib.Variant built on its bytes
MapFile ==
    /\ pc = "map_file"
    /\ IF ~File(idx).readable
       THEN Uncaught("GLib.Error", "decoder", {})
       ELSE /\ mapped' = mapped \cup {idx}
            /\ pc' = "check_version"
            /\ UNCHANGED <<pySum, avars, argv, idx, line, variant, extracted, stdout,
                           error, exitCode>>

\* mutant of the assert: any version from 1 on is accepted
VersionAtLeastOne(v) == v >= 1

\* assert variant['version'] == 1
VersionAccepted(v) == v = 1

\* the mappings alive once main's `variant` names the record of file i: the
\* record it named before is no longer referenced, and its mapping goes with it
Rebound(i) == (mapped \ {variant}) \cup {i}

\* read_variant_from_benchmark_file: the assert, the return, and main's
\* assignment of the returned record to `variant`
CheckVersion ==
    /\ pc = "check_version"
    /\ IF ~Has(idx, "version") THEN Uncaught("KeyError", "decoder", {})
       ELSE IF ~VersionAccepted(Lookup(idx, "version"))
       THEN Uncaught("AssertionError", "decoder", {"version"})
       ELSE /\ extracted' = extracted \cup {<<idx, "version">>}
            /\ variant' = idx
            /\ mapped' = Rebound(idx)
            /\ pc' = "dispatch"
            /\ UNCHANGED <<pySum, avars, argv, idx, line, stdout, error, exitCode>>

\* mutant of the dispatch: the flag is honoured for the first file only
ReporterFirstFileOnly == IF argv.tsv /\ idx = 1 THEN "print_averages" ELSE "print_summary"

\* if args.tsv: print_benchmark_averages else: print_benchmark_summary
Reporter == IF argv.tsv THEN "print_averages" ELSE "print_summary"

Dispatch ==
    /\ pc = "dispatch"
    /\ pc' = Reporter
    /\ line' = 1
    /\ UNCHANGED <<pySum, avars, argv, idx, variant, mapped, extracted, stdout,
                   error, exitCode>>

\* print_benchmark_averages
PrintAverages ==
    /\ pc = "print_averages"
    /\ \E o \in {AveragesArgs(variant)} :
           IF ~o.ok THEN Uncaught(o.exc, "reporter", o.keys)
           ELSE /\ stdout' = Append(stdout, Line(variant, "tsv", "averages", o.args))
                /\ extracted' = extracted \cup {<<variant, k>> : k \in o.keys}
                /\ pc' = "for"
                /\ UNCHANGED <<pySum, avars, argv, idx, line, variant, mapped,
                               error, exitCode>>

\* print_benchmark_summary, one print statement at a time
PrintSummaryLine ==
    /\ pc = "print_summary"
    /\ \E o \in {SummaryArgs(variant, line)} :
           IF ~o.ok THEN Uncaught(o.exc, "reporter", o.keys)
           ELSE /\ stdout' = Append(stdout,
                                    Line(variant, "summary", SummaryLabels[line], o.args))
                /\ extracted' = extracted \cup {<<variant, k>> : k \in o.keys}
                /\ IF line = NumSummaryLines
                   THEN pc' = "for" /\ line' = 1
                   ELSE pc' = "print_summary" /\ line' = line + 1
                /\ UNCHANGED <<pySum, avars, argv, idx, variant, mapped, error, exitCode>>

Next ==
    \/ ParseArgs
    \/ ForLoop
    \/ MapFile
    \/ CheckVersion
    \/ Dispatch
    \/ PrintAverages
    \/ PrintSummaryLine

Spec == Init /\ [][Next]_vars

(***************************************************************************)
(* average_of_samples called on its own, on every sample sequence of up to *)
(* MaxSamples pairs over a few offsets and values.                         *)
(***************************************************************************)
Offsets == {0, 1000}
Doubles == {D_0_1, D_0_3, D_5e8}
SamplePairs == Offsets \X Doubles

InitAvg ==
    /\ pySum \in SumAlgorithms
    /\ samples \in SeqsUpTo(SamplePairs, MaxSamples)
    /\ result = Raised("none")
    /\ apc = "call"
    /\ argv = [tsv |-> FALSE, unknownFlag |-> FALSE, files |-> <<>>]
    /\ pc = "off"
    /\ idx = 0
    /\ line = 1
    /\ variant = 0
    /\ mapped = {}
    /\ extracted = {}
    /\ stdout = <<>>
    /\ error = NoError
    /\ exitCode = -1

AvgCall ==
    /\ apc = "call"
    /\ result' = AverageOfSamples(samples)
    /\ apc' = "done"
    /\ UNCHANGED <<pySum, samples, mvars>>

NextAvg == AvgCall

SpecAvg == InitAvg /\ [][NextAvg]_vars

(***************************************************************************)
(* Vocabulary of the properties.                                           *)
(***************************************************************************)
\* a record both reporters can print: every key present, version 1, no
\* empty sample sequence, a timestamp datetime can represent
ValidFile(f) ==
    /\ f.readable
    /\ f.present = Keys
    /\ f.dict["version"] = 1
    /\ \A k \in SampleKeys : f.dict[k] # <<>>
    /\ FromTimestampOK(f.dict["timestamp-usec"])

AllValid == \A i \in 1..Len(Files) : ValidFile(File(i))

\* the labels of the lines a file's complete output consists of
OutputLabels == IF argv.tsv THEN <<"averages">> ELSE SummaryLabels
LinesPerFile == Len(OutputLabels)
OutputFormat == IF argv.tsv THEN "tsv" ELSE "summary"

LinesOf(i) == {n \in 1..Len(stdout) : stdout[n].file = i}

MetricLabel(k) ==
    CASE k = "read-samples" -> "Average Read Rate"
      [] k = "write-samples" -> "Average Write Rate"
      [] k = "access-time-samples" -> "Average Access Time"

Decoding == pc \in {"map_file", "check_version"}
Reporting == pc \in {"dispatch", "print_averages", "print_summary"}

(***************************************************************************)
(* C1.  A file whose record holds a version other than 1 fails in the      *)
(* decoder with the assertion's error: its record is never returned to     *)
(* main, none of its other fields is looked up, no line is printed for it, *)
(* and the run ends at that file with the AssertionError.                  *)
(***************************************************************************)
C1_VersionMismatchRejected ==
    \A i \in 1..Len(Files) :
        (File(i).readable /\ Has(i, "version") /\ Lookup(i, "version") # 1) =>
            /\ variant # i
            /\ \A k \in Keys \ {"version"} : <<i, k>> \notin extracted
            /\ LinesOf(i) = {}
            /\ idx = i => ~Reporting
            /\ (idx = i /\ pc \notin {"map_file", "check_version"}) =>
                    /\ pc = "exit"
                    /\ error = [exc |-> "AssertionError", file |-> i, where |-> "decoder"]

\* a version 2 file, given after a file that was reported, has been rejected
C1_Witness ==
    /\ pc = "exit"
    /\ error.exc = "AssertionError"
    /\ error.file = 2
    /\ Lookup(2, "version") = 2
    /\ stdout # <<>>

(***************************************************************************)
(* C2.  When the run has ended, every file has either its complete output  *)
(* (seven lines of summary, or the one tsv line) or no line at all, and    *)
(* the file an error was raised for has no line.                           *)
(***************************************************************************)
C2_AllOrNothing ==
    pc = "exit" =>
        \A i \in 1..Len(Files) :
            /\ Cardinality(LinesOf(i)) \in {0, LinesPerFile}
            /\ error.file = i => LinesOf(i) = {}

(***************************************************************************)
(* C3.  As claimed: after a decoding failure the driver goes on to the     *)
(* later files, so a run that has ended has taken every file.              *)
(***************************************************************************)
C3_LaterFilesAttempted ==
    (pc = "exit" /\ error.where = "decoder") => idx = Len(Files)

(***************************************************************************)
(* C3, amended.  A decoding failure ends the run: the exception is         *)
(* reported with exit status 1 at the failing file, nothing more can       *)
(* happen, and no later file has been decoded, looked into or reported.    *)
(***************************************************************************)
C3_DecodeFailureHalts ==
    error.where = "decoder" =>
        /\ pc = "exit"
        /\ exitCode = 1
        /\ idx = error.file
        /\ ~ENABLED Next
        /\ \A n \in 1..Len(stdout) : stdout[n].file < idx
        /\ \A x \in extracted : x[1] <= idx
        /\ variant < idx

\* the first of several files failed to decode
C3_Witness ==
    /\ error.where = "decoder"
    /\ error.file = 1
    /\ Len(Files) > 1
    /\ pc = "exit"

(***************************************************************************)
(* C4.  With valid files only (at least one), the output is, at every      *)
(* moment, a prefix of the files' complete outputs in command-line order,  *)
(* all printed by the reporter the --tsv flag selects; a file is decoded   *)
(* only when the output of all files before it is complete; and the run    *)
(* ends with one complete output per file.                                 *)
(***************************************************************************)
C4_SequentialInOrder ==
    (AllValid /\ Files # <<>> /\ ~argv.unknownFlag) =>
        /\ \A n \in 1..Len(stdout) :
              /\ stdout[n].file = ((n - 1) \div LinesPerFile) + 1
              /\ stdout[n].label = OutputLabels[((n - 1) % LinesPerFile) + 1]
              /\ stdout[n].fmt = OutputFormat
        /\ (Decoding \/ pc = "dispatch") => Len(stdout) = (idx - 1) * LinesPerFile
        /\ pc = "for" => Len(stdout) = idx * LinesPerFile
        /\ pc = "exit" => Len(stdout) = Len(Files) * LinesPerFile
        /\ error = NoError

\* two different valid files have been reported, in either mode
C4_Witness ==
    /\ pc = "exit"
    /\ AllValid
    /\ Len(Files) = 2
    /\ File(1) # File(2)
    /\ Len(stdout) = 2 * LinesPerFile

(***************************************************************************)
(* C5.  An empty sample sequence is never averaged into a value: once the  *)
(* empty sequence of a metric has been looked up, the run has ended with   *)
(* ZeroDivisionError raised in the reporter for that file, and no line     *)
(* showing that metric's average (its summary line, or the tsv line) has   *)
(* been printed for the file.                                              *)
(***************************************************************************)
C5_EmptySamplesRaise ==
    \A i \in 1..Len(Files) : \A k \in SampleKeys :
        (Has(i, k) /\ Lookup(i, k) = <<>>) =>
            /\ \A n \in LinesOf(i) : stdout[n].label \notin {MetricLabel(k), "averages"}
            /\ <<i, k>> \in extracted =>
                    /\ pc = "exit"
                    /\ error = [exc |-> "ZeroDivisionError", file |-> i, where |-> "reporter"]
            /\ idx <= i
            /\ ~(idx = i /\ pc = "for")

\* an empty write-samples sequence stopped the summary after the read line
C5_Witness ==
    /\ pc = "exit"
    /\ error.exc = "ZeroDivisionError"
    /\ Lookup(error.file, "write-samples") = <<>>
    /\ <<error.file, "write-samples">> \in extracted
    /\ \E n \in LinesOf(error.file) : stdout[n].label = "Average Read Rate"

(***************************************************************************)
(* C6.  As claimed: the decoder rejects a record that lacks a required     *)
(* key, so the record main hands to a reporter holds every key, and a      *)
(* KeyError is raised by the decoder only.                                 *)
(***************************************************************************)
C6_DecoderRejectsMissingKeys ==
    /\ variant # 0 => File(variant).present = Keys
    /\ error.exc = "KeyError" => error.where = "decoder"

ExactAdd(x, y) ==
    IF x.m = <<>> THEN [m |-> y.m, e |-> y.e]
    ELSE IF y.m = <<>> THEN x
    ELSE [m |-> LAdd(LShl(x.m, x.e - Min(x.e, y.e)), LShl(y.m, y.e - Min(x.e, y.e))),
          e |-> Min(x.e, y.e)]

RECURSIVE ExactSum(_)
ExactSum(values) ==
    IF values = <<>> THEN [m |-> <<>>, e |-> 0]
    ELSE The({ExactAdd(p, values[Len(values)])
              : p \in {ExactSum(SubSeq(values, 1, Len(values) - 1))}})

\* x is the value of some double
Representable(x) ==
    \/ BitLen(x.m) <= Precision
    \/ ~LShr(x.m, BitLen(x.m) - Precision).lost

\* no partial sum of values, taken left to right, needs rounding
ExactPartials(values) ==
    \A k \in 1..Len(values) : Representable(ExactSum(SubSeq(values, 1, k)))

\* the exact sum of values divided by their number, rounded once
RoundedExactMean(values) ==
    The({FDivInt(Round(0, t.m, t.e, FALSE), Len(values)) : t \in {ExactSum(values)}})

Perms(n) == {p \in [1..n -> 1..n] : \A i, j \in 1..n : i # j => p[i] # p[j]}
Permuted(sq, p) == [i \in 1..Len(sq) |-> sq[p[i]]]

AllSame(values) == \A i \in 1..Len(values) : values[i] = values[1]

FirstLineOf(i) == CHOOSE m \in LinesOf(i) : \A x \in LinesOf(i) : m <= x

(***************************************************************************)
(* C9.  Every line print_benchmark_summary printed for a valid record      *)
(* carries the label its position in the block calls for, in the order     *)
(* filename, device size, last benchmarked, sample size, read, write,      *)
(* access time; and each of the three rate lines shows the average of its  *)
(* own sample sequence with the length of that same sequence.              *)
(***************************************************************************)
C9_CountsMatchSequences ==
    \A n \in 1..Len(stdout) :
        (stdout[n].fmt = "summary" /\ ValidFile(File(stdout[n].file))) =>
            /\ stdout[n].label = SummaryLabels[n - FirstLineOf(stdout[n].file) + 1]
            /\ \A k \in SampleKeys :
                  stdout[n].label = MetricLabel(k) =>
                      /\ stdout[n].args.count = Len(Lookup(stdout[n].file, k))
                      /\ Returned(stdout[n].args.avg)
                            = AverageOfSamples(Lookup(stdout[n].file, k))

\* the summary of the record with 1 read, 2 write and 3 access-time samples
C9_Witness ==
    /\ pc = "exit"
    /\ exitCode = 0
    /\ ~argv.tsv
    /\ Files = <<ValidB>>
    /\ Len(stdout) = NumSummaryLines
    /\ stdout[6].args.count = 2
    /\ stdout[7].args.count = 3

(***************************************************************************)
(* C10.  As claimed: the mappings of two input files are never held at     *)
(* the same time.                                                          *)
(***************************************************************************)
C10_OneMappingAtATime == Cardinality(mapped) <= 1

====
